---- MODULE Spec2Model ----
(***************************************************************************)
(* Flip clock (src/src/main.rs): the ClockState and DepartureBoardState    *)
(* state machines, the frame loop of run_clock that drives them, and the   *)
(* draw-time progress / settle computation of draw_clock_face and          *)
(* draw_departure_board.                                                   *)
(*                                                                         *)
(* Time is counted in milliseconds.  get_time() is the variable now; the   *)
(* wall clock (Local::now / Utc::now) is utc0 seconds after Monday 00:00   *)
(* UTC at now = 0 and advances with now.  Option<f64> values are modelled  *)
(* as None (-1) or the millisecond instant.  Strings are sequences of      *)
(* one-character strings.  A progress value (f32) is the exact fraction    *)
(* [n |-> numerator, d |-> denominator].  Lengths and positions (f32) are  *)
(* exact multiples of 1/Px of a pixel; config.scale is counted in          *)
(* twentieths and config.spacing in hundredths.                            *)
(***************************************************************************)
EXTENDS Integers, Sequences, FiniteSets, TLC

VARIABLES app, file, monitors, input, camera, tick,
          now, utc0, config, clock_state, departure_state, pc, frame, ev, count,
          rect, geometry

vars == <<app, file, monitors, input, camera, tick,
          now, utc0, config, clock_state, departure_state, pc, frame, ev, count,
          rect, geometry>>

\* ---------------------------------------------------------------- bounds
\* get_time() granularity of the model, in ms
Quantum == 500

\* last instant (ms) the model lets get_time() reach
MaxTime == 5000

\* values of get_time() at which run_clock constructs its states
StartNows == {0, 200}

\* wall-clock instants at now = 0, in seconds after Monday 00:00:00 UTC
StartInstants ==
    { 6 * 86400 + 23 * 3600 + 59 * 60 + 58,   \* Sunday 23:59:58
      12 * 3600 + 34 * 60 + 58 }              \* Monday 12:34:58

\* the time from one frame to the next (ms) where the model follows the
\* loop frame by frame, and the last instant it is followed to
FrameMs == 50

MaxFrameTime == 1200

\* animation_speed values (ms) of the settings slider range 100..=2000
AnimationSpeeds == {100, 600, 2000}

\* ------------------------------------------------------------- constants
\* Option::None of animation_start / anim_start (instants are >= 0)
None == -1

SecondsPerDay == 24 * 3600

SecondsPerWeek == 7 * SecondsPerDay

\* offset of Local::now() from Utc::now(), in seconds
LocalOffsetSecs == 0 * 3600

\* DepartureBoardState::update rate limit, 0.1 s in ms
RateLimitMs == 100

\* ------------------------------------------------------------ time source
\* u32::to_string of a single decimal digit
DigitStr(n) == <<"0", "1", "2", "3", "4", "5", "6", "7", "8", "9">>[n + 1]

\* the value of a digit character, a blank counting as 0
DigitVal(c) ==
    CASE c = "0" -> 0 [] c = "1" -> 1 [] c = "2" -> 2 [] c = "3" -> 3
      [] c = "4" -> 4 [] c = "5" -> 5 [] c = "6" -> 6 [] c = "7" -> 7
      [] c = "8" -> 8 [] c = "9" -> 9 [] c = " " -> 0

\* Utc::now() at get_time() = t, seconds into the week
UtcSecs(t) == (utc0 + (t \div 1000)) % SecondsPerWeek

\* Local::now() at get_time() = t, seconds into the local day
LocalSecs(t) == (UtcSecs(t) + LocalOffsetSecs + SecondsPerWeek) % SecondsPerDay

\* ------------------------------------------------------------- ClockState
\* the hour ClockState::update shows (folded to 1..12 in 12-hour mode)
ClockHour(t, use_12h) ==
    LET hour == LocalSecs(t) \div 3600
    IN  IF use_12h
        THEN (IF hour % 12 = 0 THEN 12 ELSE hour % 12)
        ELSE hour

NewDigits(t, use_12h) ==
    LET hour   == ClockHour(t, use_12h)
        minute == (LocalSecs(t) \div 60) % 60
    IN  << DigitStr(hour \div 10), DigitStr(hour % 10),
           DigitStr(minute \div 10), DigitStr(minute % 10) >>

NewSeconds(t) ==
    LET second == LocalSecs(t) % 60
    IN  << DigitStr(second \div 10), DigitStr(second % 10) >>

\* ClockState::update without its comparison of the new digits with the
\* current ones: an idle clock restarts on every call
ClockUpdateUncompared(s, t, use_12h) ==
    IF s.animation_start = None
    THEN [ current_digits   |-> NewDigits(t, use_12h),
           current_seconds  |-> NewSeconds(t),
           previous_digits  |-> s.current_digits,
           previous_seconds |-> s.current_seconds,
           animation_start  |-> t ]
    ELSE s

\* ClockState::update at get_time() = t
ClockUpdate(s, t, use_12h) ==
    LET new_digits  == NewDigits(t, use_12h)
        new_seconds == NewSeconds(t)
    IN  IF (new_digits # s.current_digits \/ new_seconds # s.current_seconds)
           /\ s.animation_start = None
        THEN [ current_digits   |-> new_digits,
               current_seconds  |-> new_seconds,
               previous_digits  |-> s.current_digits,
               previous_seconds |-> s.current_seconds,
               animation_start  |-> t ]
        ELSE s

\* the all-default ClockState that ClockState::new starts from
ClockDefault ==
    [ current_digits   |-> <<"", "", "", "">>,
      current_seconds  |-> <<"", "">>,
      previous_digits  |-> <<"", "", "", "">>,
      previous_seconds |-> <<"", "">>,
      animation_start  |-> None ]

\* ClockState::new at get_time() = t
ClockNew(t) ==
    LET s == ClockUpdate(ClockDefault, t, FALSE)
    IN  [ s EXCEPT !.previous_digits = s.current_digits,
                   !.previous_seconds = s.current_seconds ]


\* ------------------------------------------------------ draw_clock_face
Zero == [n |-> 0, d |-> 1]

One == [n |-> 1, d |-> 1]

\* a <= b, a = b and a < b on progress fractions
PLe(a, b) == a.n * b.d <= b.n * a.d

PEq(a, b) == a.n * b.d = b.n * a.d

PLt(a, b) == a.n * b.d < b.n * a.d

\* the settle branch taken on any frame of a transition, complete or not
ClockSettlesEarly(s, t, speed) ==
    s.animation_start # None /\ t - s.animation_start >= 0

\* the branch of draw_clock_face that settles: progress >= 1.0
ClockSettles(s, t, speed) ==
    s.animation_start # None /\ t - s.animation_start >= speed

\* progress without the cap at 1.0
ClockProgressUncapped(s, t, speed) ==
    IF s.animation_start = None THEN Zero
    ELSE [n |-> t - s.animation_start, d |-> speed]

\* the local `progress` of draw_clock_face after its settle block
ClockProgress(s, t, speed) ==
    IF s.animation_start = None THEN Zero
    ELSE IF t - s.animation_start >= speed THEN One
    ELSE [n |-> t - s.animation_start, d |-> speed]

\* a settle that copies previous <- current but leaves animation_start set
ClockDrawKeepsStart(s, t, speed) ==
    IF s.animation_start # None /\ t - s.animation_start >= speed
    THEN [ s EXCEPT !.previous_digits = s.current_digits,
                    !.previous_seconds = s.current_seconds ]
    ELSE s

\* a settle that clears animation_start but leaves the previous values
ClockDrawKeepsPrevious(s, t, speed) ==
    IF s.animation_start # None /\ t - s.animation_start >= speed
    THEN [ s EXCEPT !.animation_start = None ]
    ELSE s

\* the ClockState draw_clock_face leaves behind
ClockDraw(s, t, speed) ==
    IF ClockSettles(s, t, speed)
    THEN [ s EXCEPT !.animation_start = None,
                    !.previous_digits = s.current_digits,
                    !.previous_seconds = s.current_seconds ]
    ELSE s

\* every cell drawn with the shared progress, changed or not
CellProgressShared(digit, prev_digit, progress) == progress

\* progress handed to draw_single_flip_card for one cell
CellProgress(digit, prev_digit, progress) ==
    IF digit = prev_digit THEN One ELSE progress

\* the progress of every card draw_clock_face draws: HH MM, then SS
ClockCells(s, progress, show_seconds) ==
    LET dd == [i \in 1..4 |->
                 CellProgress(s.current_digits[i], s.previous_digits[i], progress)]
        ss == [i \in 1..2 |->
                 CellProgress(s.current_seconds[i], s.previous_seconds[i], progress)]
    IN  IF show_seconds THEN dd \o ss ELSE dd

\* a card that shows the new glyph from the first frame of the transition
FlipCardEager(content, prev_content, progress) ==
    [ content |-> content, prev_content |-> prev_content, progress |-> progress,
      glyph   |-> IF PLt(Zero, progress) THEN content ELSE prev_content,
      split   |-> TRUE,
      seam    |-> PLt(progress, One) /\ PLt(Zero, progress),
      seam_at |-> progress ]

\* what draw_single_flip_card puts on a card: the glyph of display_digit,
\* the split line at mid_y, and the flip line at y + h * progress when it is
\* drawn. The record keeps the three arguments it was called with
FlipCard(content, prev_content, progress) ==
    [ content |-> content, prev_content |-> prev_content, progress |-> progress,
      glyph   |-> IF PLt([n |-> 1, d |-> 2], progress) THEN content ELSE prev_content,
      split   |-> TRUE,
      seam    |-> PLt(progress, One) /\ PLt(Zero, progress),
      seam_at |-> progress ]

\* the cards draw_clock_face draws: HH MM, then SS
ClockCards(s, progress, show_seconds) ==
    LET dd == [i \in 1..4 |->
                 FlipCard(s.current_digits[i], s.previous_digits[i],
                     CellProgress(s.current_digits[i], s.previous_digits[i], progress))]
        ss == [i \in 1..2 |->
                 FlipCard(s.current_seconds[i], s.previous_seconds[i],
                     CellProgress(s.current_seconds[i], s.previous_seconds[i], progress))]
    IN  IF show_seconds THEN dd \o ss ELSE dd

\* ------------------------------------------------- DepartureBoardState
CITIES ==
    << [name |-> "HAWAII",         offset_hours |-> -10, offset_minutes |-> 0],
       [name |-> "LOS ANGELES",    offset_hours |-> -8,  offset_minutes |-> 0],
       [name |-> "NEW YORK (EST)", offset_hours |-> -5,  offset_minutes |-> 0],
       [name |-> "UTC",            offset_hours |-> 0,   offset_minutes |-> 0],
       [name |-> "LONDON",         offset_hours |-> 0,   offset_minutes |-> 0],
       [name |-> "STOCKHOLM",      offset_hours |-> 1,   offset_minutes |-> 0],
       [name |-> "PARIS",          offset_hours |-> 1,   offset_minutes |-> 0],
       [name |-> "HANOI",          offset_hours |-> 7,   offset_minutes |-> 0],
       [name |-> "BRISBANE",       offset_hours |-> 10,  offset_minutes |-> 0],
       [name |-> "WELLINGTON",     offset_hours |-> 12,  offset_minutes |-> 0] >>

Rows == 1..Len(CITIES)

\* the city's offset left out: every city on UTC
CityTimeUtc(city, t) == UtcSecs(t)

\* now_utc.with_timezone(&tz) for a city, seconds into the week
CityTime(city, t) ==
    LET offset_secs == city.offset_hours * 3600 + city.offset_minutes * 60
    IN  (UtcSecs(t) + offset_secs + SecondsPerWeek) % SecondsPerWeek

\* chrono's hour12(): (is_pm, hour in 1..12)
Hour12(hour) ==
    [is_pm |-> hour >= 12, hour_12 |-> IF hour % 12 = 0 THEN 12 ELSE hour % 12]

\* format!("{:>2}:{:02}", hour_12, minute)
FormatTime(hour_12, minute) ==
    << (IF hour_12 < 10 THEN " " ELSE DigitStr(hour_12 \div 10)),
       DigitStr(hour_12 % 10), ":",
       DigitStr(minute \div 10), DigitStr(minute % 10) >>

\* chrono's "%a" for the day of the week, 0 = Monday
FormatWeekday(d) ==
    << <<"M", "o", "n">>, <<"T", "u", "e">>, <<"W", "e", "d">>, <<"T", "h", "u">>,
       <<"F", "r", "i">>, <<"S", "a", "t">>, <<"S", "u", "n">> >>[d + 1]

\* char::to_uppercase on the letters "%a" produces
UpperChar(c) ==
    CASE c = "o" -> "O" [] c = "n" -> "N" [] c = "u" -> "U" [] c = "e" -> "E"
      [] c = "d" -> "D" [] c = "h" -> "H" [] c = "r" -> "R" [] c = "i" -> "I"
      [] c = "a" -> "A" [] c = "t" -> "T" [] OTHER -> c

ToUppercase(str) == [i \in 1..Len(str) |-> UpperChar(str[i])]

\* the (time_str, ampm_str, day_str) update recomputes for a city
CityFields(city, t) ==
    LET secs == CityTime(city, t)
        h12  == Hour12((secs % SecondsPerDay) \div 3600)
    IN  [ time_str |-> FormatTime(h12.hour_12, (secs \div 60) % 60),
          ampm     |-> IF h12.is_pm THEN <<"P", "M">> ELSE <<"A", "M">>,
          day      |-> ToUppercase(FormatWeekday(secs \div SecondsPerDay)) ]

\* the body of update's loop for one row
RowUpdate(row, f, t) ==
    IF row.time_str # f.time_str \/ row.ampm # f.ampm \/ row.day # f.day
    THEN LET r1 == IF row.anim_start # None
                   THEN [ row EXCEPT !.prev_time_str = row.time_str,
                                     !.prev_ampm = row.ampm,
                                     !.prev_day = row.day ]
                   ELSE row
         IN  IF r1.anim_start = None
             THEN [ time_str      |-> f.time_str,
                    prev_time_str |-> r1.time_str,
                    ampm          |-> f.ampm,
                    prev_ampm     |-> r1.ampm,
                    day           |-> f.day,
                    prev_day      |-> r1.day,
                    anim_start    |-> t ]
             ELSE r1
    ELSE row

\* update without its rate limit: every call recomputes
BoardUpdateUnlimited(b, t) ==
    [ rows |-> [i \in Rows |-> RowUpdate(b.rows[i], CityFields(CITIES[i], t), t)],
      last_update |-> t ]

\* DepartureBoardState::update at get_time() = t
BoardUpdate(b, t) ==
    IF t - b.last_update < RateLimitMs
    THEN b
    ELSE [ rows |-> [i \in Rows |-> RowUpdate(b.rows[i], CityFields(CITIES[i], t), t)],
           last_update |-> t ]

BlankRow ==
    [ time_str      |-> <<" ", " ", ":", " ", " ">>,
      prev_time_str |-> <<" ", " ", ":", " ", " ">>,
      ampm          |-> <<" ", " ">>,
      prev_ampm     |-> <<" ", " ">>,
      day           |-> <<" ", " ", " ">>,
      prev_day      |-> <<" ", " ", " ">>,
      anim_start    |-> None ]

\* DepartureBoardState::new at get_time() = t
BoardNew(t) ==
    LET s == BoardUpdate([rows |-> [i \in Rows |-> BlankRow], last_update |-> 0], t)
    IN  [ s EXCEPT !.rows = [i \in Rows |->
              [ s.rows[i] EXCEPT !.prev_time_str = s.rows[i].time_str,
                                 !.prev_ampm = s.rows[i].ampm,
                                 !.prev_day = s.rows[i].day ]] ]

\* a time string drawn with a flip card at every position
TimeCellKindsAllCards(time_str) == [j \in 1..Len(time_str) |-> "card"]

\* what draw_departure_board draws at each position of a row's time string:
\* draw_text_centered for a ':', draw_single_flip_card for anything else
TimeCellKinds(time_str) ==
    [j \in 1..Len(time_str) |-> IF time_str[j] = ":" THEN "text" ELSE "card"]

\* the `progress` draw_departure_board computes for a row
RowProgress(row, t, speed) ==
    IF row.anim_start = None THEN One
    ELSE IF t - row.anim_start > speed THEN One
    ELSE [n |-> t - row.anim_start, d |-> speed]

\* ------------------------------------------------------------------ layout
\* sub-pixel units per pixel: every product with 0.4, 0.6, 0.8, 0.15, 0.1,
\* 1.5, a scale in twentieths and a spacing in hundredths is a whole number
Px == 50 * 1000

\* default_scale() 0.85 in twentieths, default_spacing() 0.04 in hundredths
DefaultScale == 17

DefaultSpacing == 4

DefaultCornerRadius == 8

\* get_virtual_screen_rect() off Windows
DefaultRect == [x |-> 0, y |-> 0, w |-> 1920, h |-> 1080]

\* the x of the card drawn k-th (0-based) by draw_clock_face's two loops:
\* x += card_width + spacing after every card, x += group_gap after i == 1
ClockCardX(start_x, card_width, spacing, group_gap, k) ==
    start_x + k * (card_width + spacing) + (IF k >= 2 THEN group_gap ELSE 0)

\* the cx of the draw_separator calls of draw_clock_face: the first inside
\* the digit loop after x has passed the second card, the second, when
\* seconds are shown, from the x the digit loop ends with
ClockSeparators(start_x, card_width, spacing, group_gap, show_seconds) ==
    LET x2 == start_x + 2 * (card_width + spacing)
        x4 == start_x + 4 * (card_width + spacing) + group_gap
        hh_mm == x2 + (group_gap - spacing) \div 2
        mm_ss == (x4 - group_gap) + (group_gap - spacing) \div 2
    IN  IF show_seconds THEN <<hh_mm, mm_ss>> ELSE <<hh_mm>>

\* the geometry draw_clock_face computes for (config, rect)
ClockLayout(cfg, r, is_preview) ==
    LET sw == r.w * Px
        sh == r.h * Px
        base_card_height == (sh * 2) \div 5
        card_height == (base_card_height * cfg.scale) \div 20
        card_width == (card_height * 3) \div 5
        spacing == (card_width * cfg.spacing) \div 100
        group_gap == spacing * 3
        total_cards == IF cfg.show_seconds THEN 6 ELSE 4
        total_groups_gaps == IF cfg.show_seconds THEN 2 ELSE 1
        total_spacing == IF cfg.show_seconds THEN 3 ELSE 2
        total_width == total_cards * card_width + total_spacing * spacing
                          + total_groups_gaps * group_gap
        start_x == r.x * Px + (sw - total_width) \div 2
        start_y == r.y * Px + (sh - card_height) \div 2
    IN  [ card_width    |-> card_width,
          card_height   |-> card_height,
          spacing       |-> spacing,
          group_gap     |-> group_gap,
          total_width   |-> total_width,
          start_x       |-> start_x,
          start_y       |-> start_y,
          font_size     |-> ((card_height * 4) \div 5) \div Px,
          corner_radius |-> IF is_preview THEN (cfg.corner_radius * Px) \div 2
                            ELSE cfg.corner_radius * Px,
          cards         |-> [k \in 1..total_cards |->
                                ClockCardX(start_x, card_width, spacing,
                                           group_gap, k - 1)],
          separators    |-> ClockSeparators(start_x, card_width, spacing, group_gap,
                                            cfg.show_seconds) ]

\* city_name.chars().count() for each entry of CITIES
NameChars == <<6, 11, 14, 3, 6, 9, 5, 5, 8, 10>>

\* f32::min
Min(a, b) == IF a <= b THEN a ELSE b

\* a right block laid out as the order "time string, gap, AM/PM, gap,
\* weekday from the right margin leftwards" reads
RightBlockTimeFirst(right_edge, card_width, spacing) ==
    LET time_x == right_edge - (5 * card_width + 4 * spacing)
        ampm_x == (time_x - (card_width * 3) \div 2) - (2 * card_width + spacing)
        day_x == (ampm_x - (card_width * 3) \div 2) - (3 * card_width + 2 * spacing)
    IN  [day_x |-> day_x, ampm_x |-> ampm_x, time_x |-> time_x]

\* where draw_departure_board starts the three right-aligned fields, cur_x
\* walking leftwards from right_edge: the weekday, a gap of 1.5 card widths,
\* AM/PM, the same gap, the time string
RightBlock(right_edge, card_width, spacing) ==
    LET day_width == 3 * card_width + 2 * spacing
        day_x == right_edge - day_width
        ampm_width == 2 * card_width + spacing
        ampm_x == (day_x - (card_width * 3) \div 2) - ampm_width
        time_width == 5 * card_width + 4 * spacing
        time_x == (ampm_x - (card_width * 3) \div 2) - time_width
    IN  [day_x |-> day_x, ampm_x |-> ampm_x, time_x |-> time_x]

\* the geometry draw_departure_board computes for (config, rect): the sizes,
\* the y of every row, the x of every city-name card of every row, and the x
\* of the right-aligned time, AM/PM and weekday cards
BoardLayout(cfg, r) ==
    LET num_rows == Len(CITIES)
        margin == (20 * Px * cfg.scale) \div 20
        available_h == r.h * Px - margin * 2
        row_height == Min(available_h \div num_rows,
                          (((r.h * Px * 3) \div 20) * cfg.scale) \div 20)
        card_height == (row_height * 4) \div 5
        card_width == (card_height * 3) \div 5
        spacing == card_width \div 10
        y0 == r.y * Px + (r.h * Px - num_rows * row_height) \div 2
        right_edge == r.x * Px + r.w * Px - margin
        b == RightBlock(right_edge, card_width, spacing)
        day_x == b.day_x
        ampm_x == b.ampm_x
        time_x == b.time_x
    IN  [ row_height    |-> row_height,
          margin        |-> margin,
          right_edge    |-> right_edge,
          card_width    |-> card_width,
          card_height   |-> card_height,
          spacing       |-> spacing,
          font_size     |-> ((card_height * 7) \div 10) \div Px,
          corner_radius |-> (cfg.corner_radius * Px) \div 2,
          row_y         |-> [i \in Rows |-> y0 + (i - 1) * row_height],
          name          |-> [i \in Rows |-> [k \in 1..NameChars[i] |->
                                r.x * Px + margin + (k - 1) * (card_width + spacing)]],
          time          |-> [j \in 1..5 |-> time_x + (j - 1) * (card_width + spacing)],
          ampm          |-> [j \in 1..2 |-> ampm_x + (j - 1) * (card_width + spacing)],
          day           |-> [j \in 1..3 |-> day_x + (j - 1) * (card_width + spacing)] ]

\* no layout computed yet
NoGeometry ==
    [ clock_drawn |-> FALSE, clock |-> <<>>, clock_rect |-> <<>>, clock_first |-> {},
      clock_again |-> FALSE,
      board_drawn |-> FALSE, board |-> <<>>, board_rect |-> <<>>, board_first |-> {} ]

\* the frame returns to a rectangle after a frame drawn into another one
Returns(g, r) ==
    g.clock_drawn /\ g.clock_rect # r /\ \E p \in g.clock_first : p[1] = r

\* the pairs <<rectangle, geometry of the first frame drawn into it>>
Remember(first, r, g) ==
    IF \E p \in first : p[1] = r THEN first ELSE first \cup {<<r, g>>}

\* a layout that eases from the previous frame's position to the new one
ClockLayoutStepEased ==
    LET g == ClockLayout(config, rect, FALSE)
        c == IF ~geometry.clock_drawn THEN g
             ELSE [g EXCEPT !.start_x = (geometry.clock.start_x + @) \div 2,
                            !.start_y = (geometry.clock.start_y + @) \div 2]
    IN  geometry' = [ geometry EXCEPT !.clock_drawn = TRUE, !.clock = c,
                          !.clock_rect = rect, !.clock_first = Remember(@, rect, c),
                          !.clock_again = Returns(geometry, rect) ]

\* the layout block of draw_clock_face: computed afresh from (config, rect).
\* clock_first keeps the geometry of the first frame drawn into a rectangle,
\* clock_again tells a frame that returns to a rectangle drawn into before
ClockLayoutStep ==
    LET g == ClockLayout(config, rect, FALSE)
    IN  geometry' = [ geometry EXCEPT !.clock_drawn = TRUE, !.clock = g,
                          !.clock_rect = rect, !.clock_first = Remember(@, rect, g),
                          !.clock_again = Returns(geometry, rect) ]

\* the layout block of draw_departure_board
BoardLayoutStep ==
    LET g == BoardLayout(config, rect)
    IN  geometry' = [ geometry EXCEPT !.board_drawn = TRUE, !.board = g,
                          !.board_rect = rect, !.board_first = Remember(@, rect, g) ]

\* ------------------------------------------------------------ config.rs
\* the names a monitor can carry: the one get_monitors() reports off Windows,
\* a second monitor, and one that is no longer plugged in
SurfaceNames == {"Default", "HDMI-1", "Gone"}

\* config.monitor_views as a table over the names: "Absent" is no entry
NoViews == [n \in SurfaceNames |-> "Absent"]

\* AppConfig::default(); the colours are counted in thousandths
DefaultConfig ==
    [ selected_monitor |-> "",
      use_12h_format   |-> FALSE,
      show_seconds     |-> TRUE,
      pixelated        |-> FALSE,
      scale            |-> DefaultScale,
      spacing          |-> DefaultSpacing,
      corner_radius    |-> DefaultCornerRadius,
      bg_color         |-> <<125, 125, 125>>,
      card_color       |-> <<165, 165, 165>>,
      text_color       |-> <<898, 898, 898>>,
      animation_speed  |-> 600,
      monitor_views    |-> NoViews ]

\* the fields of AppConfig that derive(Serialize, Deserialize) writes and reads
Keys ==
    { "selected_monitor", "use_12h_format", "show_seconds", "pixelated", "scale",
      "spacing", "corner_radius", "bg_color", "card_color", "text_color",
      "animation_speed" }

\* the decimal digits of a u64
RECURSIVE FormatNat(_)
FormatNat(n) ==
    IF n < 10 THEN <<DigitStr(n)>> ELSE FormatNat(n \div 10) \o <<DigitStr(n % 10)>>

\* the JSON text of an f32 of m thousandths: 850 is 0.85, 8000 is 8.0. The
\* fraction loses its trailing zeros and keeps one digit
FormatF32(m) ==
    LET f == m % 1000
        frac == IF f % 100 = 0 THEN <<DigitStr(f \div 100)>>
                ELSE IF f % 10 = 0
                     THEN <<DigitStr(f \div 100), DigitStr((f \div 10) % 10)>>
                     ELSE <<DigitStr(f \div 100), DigitStr((f \div 10) % 10),
                            DigitStr(f % 10)>>
    IN  FormatNat(m \div 1000) \o <<".">> \o frac

\* the JSON text of a bool
FormatBool(b) == IF b THEN <<"true">> ELSE <<"false">>

FormatColor(c) ==
    <<"[">> \o FormatF32(c[1]) \o <<",">> \o FormatF32(c[2]) \o <<",">>
            \o FormatF32(c[3]) \o <<"]">>

\* serde_json::to_string_pretty(config): the text of every field, by key
Serialize(c) ==
    [ selected_monitor |-> <<"\"", c.selected_monitor, "\"">>,
      use_12h_format   |-> FormatBool(c.use_12h_format),
      show_seconds     |-> FormatBool(c.show_seconds),
      pixelated        |-> FormatBool(c.pixelated),
      scale            |-> FormatF32(c.scale * 50),
      spacing          |-> FormatF32(c.spacing * 10),
      corner_radius    |-> FormatF32(c.corner_radius * 1000),
      bg_color         |-> FormatColor(c.bg_color),
      card_color       |-> FormatColor(c.card_color),
      text_color       |-> FormatColor(c.text_color),
      animation_speed  |-> FormatNat(c.animation_speed) ]

\* a JSON unsigned integer
IsDigits(tok) ==
    /\ Len(tok) > 0
    /\ \A i \in 1..Len(tok) :
          tok[i] \in {"0", "1", "2", "3", "4", "5", "6", "7", "8", "9"}

\* the value of a run of digits
RECURSIVE ParseNat(_)
ParseNat(tok) ==
    IF Len(tok) = 0 THEN 0
    ELSE 10 * ParseNat(SubSeq(tok, 1, Len(tok) - 1)) + DigitVal(tok[Len(tok)])

\* the position of the first c in tok, 0 when there is none
Find(tok, c) ==
    IF \E i \in 1..Len(tok) : tok[i] = c
    THEN CHOOSE i \in 1..Len(tok) : tok[i] = c /\ \A j \in 1..(i - 1) : tok[j] # c
    ELSE 0

\* a JSON number read as an f32: digits, then optionally a point and one to
\* three digits
IsF32(tok) ==
    LET p == Find(tok, ".")
    IN  IF p = 0 THEN IsDigits(tok)
        ELSE /\ IsDigits(SubSeq(tok, 1, p - 1))
             /\ IsDigits(SubSeq(tok, p + 1, Len(tok)))
             /\ Len(tok) - p <= 3

\* its value in thousandths
ParseF32(tok) ==
    LET p == Find(tok, ".")
        frac == SubSeq(tok, p + 1, Len(tok))
    IN  IF p = 0 THEN 1000 * ParseNat(tok)
        ELSE 1000 * ParseNat(SubSeq(tok, 1, p - 1))
               + ParseNat(frac) * (CASE Len(frac) = 1 -> 100 [] Len(frac) = 2 -> 10
                                     [] OTHER -> 1)

\* the three numbers of a JSON array, each with its separator in front
ColorPart(tok, k) ==
    LET Seps == {i \in 1..Len(tok) : tok[i] \in {"[", ",", "]"}}
        Nth(S, n) == CHOOSE i \in S : Cardinality({j \in S : j < i}) = n - 1
    IN  SubSeq(tok, Nth(Seps, k) + 1, Nth(Seps, k + 1) - 1)

IsColor(tok) ==
    /\ Len(tok) > 0 /\ tok[1] = "[" /\ tok[Len(tok)] = "]"
    /\ Cardinality({i \in 1..Len(tok) : tok[i] \in {"[", ",", "]"}}) = 4
    /\ \A k \in 1..3 : IsF32(ColorPart(tok, k))

ParseColor(tok) == [k \in 1..3 |-> ParseF32(ColorPart(tok, k))]

\* a stored field that is there: <<>> stands for a key the file lacks
Present(doc, k) == doc[k] # <<>>

\* every field that is there has the type of its AppConfig field
WellTyped(doc) ==
    /\ Present(doc, "selected_monitor") =>
          ( /\ Len(doc.selected_monitor) = 3
            /\ doc.selected_monitor[1] = "\"" /\ doc.selected_monitor[3] = "\"" )
    /\ \A k \in {"use_12h_format", "show_seconds", "pixelated"} :
          Present(doc, k) => doc[k] \in {<<"true">>, <<"false">>}
    /\ \A k \in {"scale", "spacing", "corner_radius"} : Present(doc, k) => IsF32(doc[k])
    /\ \A k \in {"bg_color", "card_color", "text_color"} :
          Present(doc, k) => IsColor(doc[k])
    /\ Present(doc, "animation_speed") => IsDigits(doc.animation_speed)

\* serde_json::from_str::<AppConfig> succeeds: selected_monitor, the one field
\* without #[serde(default)], is there, and every field has its type
Deserializes(doc) == Present(doc, "selected_monitor") /\ WellTyped(doc)

\* a reader that takes the scale for the spacing
DeserializeSwapped(doc) ==
    [ DefaultConfig EXCEPT
        !.selected_monitor = IF Present(doc, "selected_monitor")
                             THEN doc.selected_monitor[2] ELSE @,
        !.spacing = IF Present(doc, "scale") THEN ParseF32(doc.scale) \div 10 ELSE @ ]

\* the AppConfig serde_json::from_str builds: each field from its text, the
\* field's #[serde(default = ...)] where the key is missing
Deserialize(doc) ==
    LET Field(k, v) == IF Present(doc, k) THEN v ELSE DefaultConfig[k]
    IN  [ selected_monitor |-> Field("selected_monitor", doc.selected_monitor[2]),
          use_12h_format   |-> Field("use_12h_format", doc.use_12h_format = <<"true">>),
          show_seconds     |-> Field("show_seconds", doc.show_seconds = <<"true">>),
          pixelated        |-> Field("pixelated", doc.pixelated = <<"true">>),
          scale            |-> Field("scale", ParseF32(doc.scale) \div 50),
          spacing          |-> Field("spacing", ParseF32(doc.spacing) \div 10),
          corner_radius    |-> Field("corner_radius", ParseF32(doc.corner_radius) \div 1000),
          bg_color         |-> Field("bg_color", ParseColor(doc.bg_color)),
          card_color       |-> Field("card_color", ParseColor(doc.card_color)),
          text_color       |-> Field("text_color", ParseColor(doc.text_color)),
          animation_speed  |-> Field("animation_speed", ParseNat(doc.animation_speed)),
          monitor_views    |-> NoViews ]

\* no config.json: fs::read_to_string fails. views is the stored
\* monitor_views table, a field run_setup reads and writes but whose
\* declaration config.rs does not hold: it is kept as it was saved
NoFile == [exists |-> FALSE, doc |-> [k \in Keys |-> <<>>], views |-> NoViews]

\* a load_config that keeps what it can read of a file without its
\* selected_monitor
LoadConfigLenient(f) ==
    IF f.exists /\ WellTyped(f.doc)
    THEN [Deserialize(f.doc) EXCEPT !.monitor_views = f.views]
    ELSE DefaultConfig

\* load_config(): the file's configuration, AppConfig::default() when the
\* file cannot be read or does not deserialize
LoadConfig(f) ==
    IF f.exists /\ Deserializes(f.doc)
    THEN [Deserialize(f.doc) EXCEPT !.monitor_views = f.views]
    ELSE DefaultConfig

\* save_config(config)
SaveConfig(c) == [exists |-> TRUE, doc |-> Serialize(c), views |-> c.monitor_views]

\* ------------------------------------------------- monitors and their views
\* MonitorInfo
Monitor(name, x, width, height, is_primary) ==
    [ name |-> name, x |-> x, y |-> 0, width |-> width, height |-> height,
      is_primary |-> is_primary ]

\* get_monitors() off Windows
DefaultMonitors == <<Monitor("Default", 0, 1920, 1080, TRUE)>>

\* what get_monitors() can return: one monitor, two, or, when
\* EnumDisplayMonitors calls back for none, an empty list
MonitorLists ==
    { DefaultMonitors,
      <<Monitor("Default", 0, 1920, 1080, TRUE), Monitor("HDMI-1", 1920, 1024, 768, FALSE)>>,
      <<>> }

\* run_setup's migration of selected_monitor into an empty monitor_views:
\* Clock for the monitor should_be_clock holds of, Off for the others
Migrate(cfg, ms) ==
    LET should_be_clock(m) ==
            IF cfg.selected_monitor = "" THEN m.is_primary
            ELSE m.name = cfg.selected_monitor
    IN  IF \A n \in SurfaceNames : cfg.monitor_views[n] = "Absent"
        THEN [ cfg EXCEPT !.monitor_views =
                 [ n \in SurfaceNames |->
                     IF \E i \in 1..Len(ms) : ms[i].name = n
                     THEN LET m == ms[CHOOSE i \in 1..Len(ms) : ms[i].name = n]
                          IN  IF should_be_clock(m) THEN "Clock" ELSE "Off"
                     ELSE "Absent" ] ]
        ELSE cfg

\* config.monitor_views.get(&m.name).cloned().unwrap_or(ViewType::Off)
ResolveView(cfg, name) ==
    IF cfg.monitor_views[name] = "Absent" THEN "Off" ELSE cfg.monitor_views[name]

\* ------------------------------------------------------------ run_clock
\* nothing drawn yet
NoFrame ==
    [ drawn |-> FALSE, start |-> None, progress |-> Zero, cells |-> <<>>,
      board_drawn |-> FALSE, row_start |-> <<>>, rows |-> <<>>,
      cards |-> <<>>, time_kinds |-> <<>>, surfaces |-> <<>>, assigned |-> <<>> ]

\* what the last step of the loop did: op, the step; differs, update's
\* comparison of the new digits with the current ones; inflight,
\* animation_start.is_some() before the step; settled, draw_clock_face took
\* its settle branch; deferred, an update before this one saw a change while
\* a transition was in flight and left it for later
Event(op, differs, inflight, settled, deferred) ==
    [ op |-> op, differs |-> differs, inflight |-> inflight,
      settled |-> settled, deferred |-> deferred ]

\* update's comparison: new_digits != current_digits || new_seconds != current_seconds
Differs(s, t, use_12h) ==
    NewDigits(t, use_12h) # s.current_digits \/ NewSeconds(t) # s.current_seconds

\* ------------------------------------------------------------ the shell
\* what main decided and what the machine holds; none of it changes inside
\* the frame loop
shell == <<app, file, monitors>>

\* AppMode::Setup, AppMode::Clock { preview }
ModeSetup == [kind |-> "Setup", preview |-> FALSE]

ModeClock(preview) == [kind |-> "Clock", preview |-> preview]

\* mouse_position() values: a resting place, a place 10 pixels from it (not
\* beyond the threshold) and one 11 pixels from it
MousePositions == {<<100, 100>>, <<110, 100>>, <<100, 111>>}

\* the input state run_clock starts from: mouse_init_pos = mouse_position(),
\* start_time = get_time(), no key pressed
NoInput(t) ==
    [ key |-> FALSE, mouse |-> <<100, 100>>, mouse_init |-> <<100, 100>>,
      start_time |-> t, cursor |-> FALSE ]

\* now - start_time < 0.5
InGrace(inp, t) == t - inp.start_time < 500

\* (current_pos.0 - mouse_init_pos.0).abs() > 10.0 || (.1 - .1).abs() > 10.0
MouseMoved(inp) ==
    \/ inp.mouse[1] - inp.mouse_init[1] > 10 \/ inp.mouse_init[1] - inp.mouse[1] > 10
    \/ inp.mouse[2] - inp.mouse_init[2] > 10 \/ inp.mouse_init[2] - inp.mouse[2] > 10

\* exit checks without the grace period
ExitConditionNoGrace(inp, t) == inp.key \/ MouseMoved(inp)

\* the two checks at the top of run_clock's loop
ExitCondition(inp, t) == inp.key \/ (~InGrace(inp, t) /\ MouseMoved(inp))

\* the draw-target calls of run_clock's draw, in order
ClockDrawOps(cfg) ==
    IF cfg.pixelated
    THEN <<"set_camera:render_target", "draw_clock_face", "set_default_camera",
           "draw_texture_ex">>
    ELSE <<"draw_clock_face">>

\* the draw target after one call
CameraStep(cam, op) ==
    CASE op = "set_default_camera" -> "default"
      [] op = "set_camera:render_target" -> "render_target"
      [] op = "set_camera:pixel_target" -> "pixel_target"
      [] op = "set_camera:preview_target" -> "preview_target"
      [] OTHER -> cam

\* the draw target after a run of calls
RECURSIVE CameraAfter(_, _)
CameraAfter(ops, cam) ==
    IF ops = <<>> THEN cam ELSE CameraAfter(Tail(ops), CameraStep(cam, Head(ops)))

\* the steps of the tick so far, after its first: a new list once the tick
\* before has reached next_frame()
StartTick(t) ==
    IF t = <<>> \/ t[Len(t)] = "next_frame" THEN <<"update_clock">>
    ELSE Append(t, "update_clock")

\* the steps of one draw call: the layout block, the settle branch when it
\* is taken, the drawing
DrawSteps(view, settles) ==
    <<"layout_" \o view>> \o (IF settles THEN <<"settle_" \o view>> ELSE <<>>)
        \o <<"draw_" \o view>>

\* a clock run that draws one clock face for every monitor of the list
ClockSurfacesPerMonitor(ms, r) ==
    [ i \in 1..Len(ms) |->
        [ rect |-> [x |-> ms[i].x, y |-> ms[i].y, w |-> ms[i].width, h |-> ms[i].height],
          view |-> "Clock" ] ]

\* what one frame of run_clock puts on the window: one clock face, drawn
\* into clock_rect, whatever get_monitors() returned
ClockSurfaces(ms, r) == <<[rect |-> r, view |-> "Clock"]>>

\* main of src/src/main.rs chose AppMode::Clock { preview: false }, the font
\* loaded, and get_monitors() gave the one default monitor
Shown ==
    /\ app = [ variant |-> "src", argc |-> 2, arg |-> <<"/", "s">>, font_file |-> TRUE,
               disk_ok |-> TRUE, mode |-> ModeClock(FALSE), font |-> "Some" ]
    /\ file = SaveConfig(config)
    /\ monitors = DefaultMonitors

\* ClockState::new, DepartureBoardState::new, and nothing drawn yet
Constructed ==
    /\ clock_state = ClockNew(now)
    /\ departure_state = BoardNew(now)
    /\ pc = "update_clock"
    /\ frame = NoFrame
    /\ ev = Event("new", FALSE, FALSE, FALSE, FALSE)
    /\ count = [ started |-> IF clock_state.animation_start # None THEN 1 ELSE 0,
                 settled |-> 0, pending |-> FALSE ]
    /\ geometry = NoGeometry
    /\ input = NoInput(now)
    /\ camera = "default"
    /\ tick = <<>>

\* run_clock up to its loop: load_config, ClockState::new, DepartureBoardState::new
Init ==
    /\ now \in StartNows
    /\ utc0 \in StartInstants
    /\ config \in { [ DefaultConfig EXCEPT !.use_12h_format = h, !.show_seconds = s,
                                          !.animation_speed = a ] :
                      h \in BOOLEAN, s \in BOOLEAN, a \in AnimationSpeeds }
    /\ Shown
    /\ rect = DefaultRect
    /\ Constructed

\* get_time() and the wall clock move on: across next_frame(), and between
\* the state updates and the draw calls of one tick
Advance ==
    /\ pc \in {"update_clock", "draw_clock"}
    /\ now + Quantum <= MaxTime
    /\ now' = now + Quantum
    /\ UNCHANGED <<utc0, config, clock_state, departure_state, pc, frame, ev, count,
                   rect, geometry, shell, input, camera, tick>>

\* clock_state.update(config.use_12h_format)
UpdateClock ==
    /\ pc = "update_clock"
    /\ ~ExitCondition(input, now)
    /\ clock_state' = ClockUpdate(clock_state, now, config.use_12h_format)
    /\ ev' = Event("update_clock",
                   Differs(clock_state, now, config.use_12h_format),
                   clock_state.animation_start # None, FALSE, count.pending)
    /\ count' = [ count EXCEPT
                    !.started = IF clock_state'.animation_start
                                     \notin {None, clock_state.animation_start}
                                THEN @ + 1 ELSE @,
                    !.pending = Differs(clock_state', now, config.use_12h_format) ]
    /\ input' = [input EXCEPT !.mouse_init = IF InGrace(input, now) THEN input.mouse ELSE @]
    /\ tick' = StartTick(tick)
    /\ pc' = "update_board"
    /\ UNCHANGED <<now, utc0, config, departure_state, frame, rect, geometry, shell,
                   camera>>

\* a loop that goes back to the clock update without drawing
UpdateBoardRetry ==
    /\ pc = "update_board"
    /\ departure_state' = BoardUpdate(departure_state, now)
    /\ ev' = Event("update_board", FALSE, FALSE, FALSE, FALSE)
    /\ tick' = Append(tick, "update_board")
    /\ pc' = "update_clock"
    /\ UNCHANGED <<now, utc0, config, clock_state, frame, count, rect, geometry, shell,
                   input, camera>>

\* departure_state.update()
UpdateBoard ==
    /\ pc = "update_board"
    /\ departure_state' = BoardUpdate(departure_state, now)
    /\ ev' = Event("update_board", FALSE, FALSE, FALSE, FALSE)
    /\ tick' = Append(tick, "update_board")
    /\ pc' = "draw_clock"
    /\ UNCHANGED <<now, utc0, config, clock_state, frame, count, rect, geometry, shell,
                   input, camera>>

\* draw_clock_face(&config, &mut clock_state, ...)
DrawClock ==
    /\ pc = "draw_clock"
    /\ clock_state' = ClockDraw(clock_state, now, config.animation_speed)
    /\ frame' = [ frame EXCEPT
                    !.drawn = TRUE,
                    !.start = clock_state.animation_start,
                    !.progress = ClockProgress(clock_state, now, config.animation_speed),
                    !.cells = ClockCells(clock_state',
                                  ClockProgress(clock_state, now, config.animation_speed),
                                  config.show_seconds),
                    !.cards = ClockCards(clock_state',
                                  ClockProgress(clock_state, now, config.animation_speed),
                                  config.show_seconds),
                    !.surfaces = ClockSurfaces(monitors, rect) ]
    /\ ev' = Event("draw_clock", FALSE, clock_state.animation_start # None,
                   ClockSettles(clock_state, now, config.animation_speed), FALSE)
    /\ count' = IF clock_state.animation_start # None
                   /\ clock_state'.animation_start = None
                THEN [count EXCEPT !.settled = @ + 1] ELSE count
    /\ ClockLayoutStep
    /\ camera' = CameraAfter(ClockDrawOps(config), camera)
    /\ tick' = tick \o DrawSteps("clock", ClockSettles(clock_state, now, config.animation_speed))
    /\ pc' = "draw_board"
    /\ UNCHANGED <<now, utc0, config, departure_state, rect, shell, input>>

\* draw_departure_board(&config, &mut departure_state, ...), then next_frame()
DrawBoard ==
    /\ pc = "draw_board"
    /\ frame' = [ frame EXCEPT
                    !.board_drawn = TRUE,
                    !.row_start = [i \in Rows |-> departure_state.rows[i].anim_start],
                    !.time_kinds = [i \in Rows |->
                        TimeCellKinds(departure_state.rows[i].time_str)],
                    !.rows = [i \in Rows |->
                        RowProgress(departure_state.rows[i], now, config.animation_speed)] ]
    /\ ev' = Event("draw_board", FALSE, FALSE, FALSE, FALSE)
    /\ BoardLayoutStep
    /\ tick' = tick \o DrawSteps("board", FALSE) \o <<"next_frame">>
    /\ pc' = "update_clock"
    /\ UNCHANGED <<now, utc0, config, clock_state, departure_state, count, rect, shell,
                   input, camera>>

\* one step of the frame loop
Tick == UpdateClock \/ UpdateBoard \/ DrawClock \/ DrawBoard

Next == Advance \/ Tick

Spec == Init /\ [][Next]_vars

\* the runs followed to their end: seconds shown, 24-hour digits, started at
\* get_time() = 0 two seconds before Monday 00:00:00
InitLive ==
    /\ Init
    /\ now = 0
    /\ utc0 = SecondsPerWeek - 2
    /\ config.show_seconds /\ ~config.use_12h_format

\* the loop keeps running and time keeps passing: the loop never blocks
\* (next_frame() returns every frame) and get_time() is the real clock
SpecLive == InitLive /\ [][Next]_vars /\ WF_vars(Tick) /\ SF_vars(Advance)

\* the loop followed frame by frame from two seconds before Monday 00:00:00
InitFrames ==
    /\ Init
    /\ now = 0
    /\ utc0 = SecondsPerWeek - 2
    /\ config.show_seconds /\ ~config.use_12h_format
    /\ config.animation_speed = 100

\* next_frame(): get_time() is one frame later, or the same within the
\* model's granularity
NextFrame ==
    /\ pc = "update_clock"
    /\ now + FrameMs <= MaxFrameTime
    /\ now' = now + FrameMs
    /\ UNCHANGED <<utc0, config, clock_state, departure_state, pc, frame, ev, count,
                   rect, geometry, shell, input, camera, tick>>

SpecFrames == InitFrames /\ [][NextFrame \/ Tick]_vars

\* drawable rectangles: the virtual screen, a 4:3 second monitor to its
\* right, a portrait monitor, and a settings-preview sized area
Rects ==
    { DefaultRect,
      [x |-> 1920, y |-> 0, w |-> 1024, h |-> 768],
      [x |-> 0, y |-> 0, w |-> 1080, h |-> 1920],
      [x |-> 0, y |-> 0, w |-> 320, h |-> 180] }

\* config.scale values of the slider range 20..=100 %, in twentieths
Scales == {4, DefaultScale, 20}

\* config.spacing values of the slider range 0..=10 %, in hundredths
Spacings == {0, DefaultSpacing, 10}

\* the frame loop drawing into any rectangle under any appearance settings
InitLayout ==
    /\ now = 0
    /\ utc0 = 12 * 3600 + 34 * 60 + 58
    /\ config \in { [ DefaultConfig EXCEPT !.show_seconds = s, !.scale = c,
                                          !.spacing = g ] :
                      s \in BOOLEAN, c \in Scales, g \in Spacings }
    /\ Shown
    /\ rect \in Rects
    /\ Constructed

\* the next frame is drawn into a different rectangle (another monitor's
\* view, a resized window)
Resize ==
    /\ pc = "update_clock"
    /\ rect' \in Rects \ {rect}
    /\ UNCHANGED <<now, utc0, config, clock_state, departure_state, pc, frame, ev,
                   count, geometry, shell, input, camera, tick>>

NextLayout == Resize \/ Tick

SpecLayout == InitLayout /\ [][NextLayout]_vars

\* ---------------------------------------------------------------- main
\* str::to_lowercase, for the characters the arguments are made of
ToLowercase(str) ==
    [ i \in 1..Len(str) |->
        CASE str[i] = "S" -> "s" [] str[i] = "C" -> "c" [] str[i] = "P" -> "p"
          [] OTHER -> str[i] ]

\* str::starts_with
StartsWith(str, prefix) ==
    Len(str) >= Len(prefix) /\ SubSeq(str, 1, Len(prefix)) = prefix

\* args[1] as the screensaver host and a user give it
Args ==
    { <<"/", "s">>, <<"/", "S">>, <<"/", "c">>, <<"/", "c", ":", "7">>,
      <<"/", "p">>, <<"/", "P">>, <<"-", "h">> }

\* neither program ran anything: the process ends
ModeNone == [kind |-> "None", preview |-> FALSE]

\* the screensaver of the variants without a settings view
ModeShow == [kind |-> "Show", preview |-> FALSE]

\* main of src/src/main.rs up to the font: mode starts as Setup and the
\* first argument, lowercased, overrides it
MainMode(argc, arg) ==
    IF argc > 1
    THEN IF StartsWith(ToLowercase(arg), <<"/", "s">>) THEN ModeClock(FALSE)
         ELSE IF StartsWith(ToLowercase(arg), <<"/", "c">>) THEN ModeSetup
         ELSE IF StartsWith(ToLowercase(arg), <<"/", "p">>) THEN ModeClock(TRUE)
         ELSE ModeSetup
    ELSE ModeSetup

\* main of src/rust_flip-rs: the screensaver without an argument and for /s,
\* nothing otherwise
FlipRsMode(argc, arg) ==
    IF argc <= 1 THEN ModeShow
    ELSE IF StartsWith(ToLowercase(arg), <<"/", "s">>) THEN ModeShow
    ELSE ModeNone

\* main of src/rust_flip_clock: it returns for /c and /p and shows otherwise
FlipClockMode(argc, arg) ==
    IF argc > 1 /\ (\/ StartsWith(ToLowercase(arg), <<"/", "c">>)
                    \/ StartsWith(ToLowercase(arg), <<"/", "p">>))
    THEN ModeNone
    ELSE ModeShow

\* the mode a program starts in
StartMode(variant, argc, arg) ==
    CASE variant = "src" -> MainMode(argc, arg)
      [] variant = "rust_flip-rs" -> FlipRsMode(argc, arg)
      [] variant = "rust_flip_clock" -> FlipClockMode(argc, arg)

\* load_ttf_font(..).await.ok() of the two macroquad programs: None when the
\* file does not load; ttf_context.load_font(..).expect(..) of rust_flip-rs
\* panics instead
LoadFont(variant, font_file) ==
    IF font_file THEN "Some"
    ELSE IF variant = "rust_flip-rs" THEN "panic" ELSE "None"

\* main: the mode from the arguments, the font loaded once, and where it
\* goes: run_setup or run_clock, the screensaver loop of the two other
\* variants, the end of the process, or a panic
Launch ==
    /\ pc = "main"
    /\ LET mode == StartMode(app.variant, app.argc, app.arg)
           font == IF mode.kind = "None" THEN "None"
                   ELSE LoadFont(app.variant, app.font_file)
       IN  /\ app' = [app EXCEPT !.mode = mode, !.font = font]
           /\ pc' = CASE mode.kind = "None" -> "exited"
                      [] mode.kind = "Show" ->
                            IF font = "panic" THEN "panicked" ELSE "screensaver"
                      [] mode.kind = "Setup" -> "run_setup"
                      [] mode.kind = "Clock" -> "run_clock"
    /\ ev' = Event("main", FALSE, FALSE, FALSE, FALSE)
    /\ UNCHANGED <<file, monitors, input, camera, tick, now, utc0, config, clock_state,
                   departure_state, frame, count, rect, geometry>>

\* the preview render target of run_setup: preview_width x preview_height
PreviewRect == [x |-> 0, y |-> 0, w |-> 400, h |-> 225]

\* run_setup up to its loop: load_config, get_monitors, the migration,
\* ClockState::new
EnterSetup ==
    /\ pc = "run_setup"
    /\ config' = Migrate(LoadConfig(file), monitors)
    /\ clock_state' = ClockNew(now)
    /\ rect' = PreviewRect
    /\ frame' = NoFrame
    /\ geometry' = NoGeometry
    /\ count' = [started |-> 1, settled |-> 0, pending |-> FALSE]
    /\ tick' = <<>>
    /\ ev' = Event("run_setup", FALSE, FALSE, FALSE, FALSE)
    /\ pc' = "setup_update"
    /\ UNCHANGED <<shell, input, camera, now, utc0, departure_state>>

\* clock_state.update(config.use_12h_format) at the top of run_setup's loop
SetupUpdate ==
    /\ pc = "setup_update"
    /\ clock_state' = ClockUpdate(clock_state, now, config.use_12h_format)
    /\ ev' = Event("update_clock",
                   Differs(clock_state, now, config.use_12h_format),
                   clock_state.animation_start # None, FALSE, count.pending)
    /\ count' = [ count EXCEPT
                    !.started = IF clock_state'.animation_start
                                     \notin {None, clock_state.animation_start}
                                THEN @ + 1 ELSE @,
                    !.pending = Differs(clock_state', now, config.use_12h_format) ]
    /\ tick' = StartTick(tick)
    /\ pc' = "setup_preview"
    /\ UNCHANGED <<shell, input, camera, now, utc0, config, departure_state, frame,
                   rect, geometry>>

\* the preview that binds a target and never gives it back
SetupPreviewOpsLeaky(cfg) ==
    IF cfg.pixelated
    THEN <<"set_camera:pixel_target", "draw_clock_face", "set_default_camera",
           "set_camera:preview_target", "draw_texture_ex">>
    ELSE <<"set_camera:preview_target", "draw_clock_face", "set_default_camera">>

\* the draw-target calls of run_setup's preview block, in order
SetupPreviewOps(cfg) ==
    IF cfg.pixelated
    THEN <<"set_camera:pixel_target", "draw_clock_face", "set_default_camera",
           "set_camera:preview_target", "draw_texture_ex", "set_default_camera">>
    ELSE <<"set_camera:preview_target", "draw_clock_face", "set_default_camera">>

\* the preview block of run_setup: draw_clock_face(.., rect, font, true) into
\* the render target
SetupPreview ==
    /\ pc = "setup_preview"
    /\ clock_state' = ClockDraw(clock_state, now, config.animation_speed)
    /\ frame' = [ frame EXCEPT
                    !.drawn = TRUE,
                    !.start = clock_state.animation_start,
                    !.progress = ClockProgress(clock_state, now, config.animation_speed),
                    !.cells = ClockCells(clock_state',
                                  ClockProgress(clock_state, now, config.animation_speed),
                                  config.show_seconds),
                    !.cards = ClockCards(clock_state',
                                  ClockProgress(clock_state, now, config.animation_speed),
                                  config.show_seconds) ]
    /\ ev' = Event("draw_clock", FALSE, clock_state.animation_start # None,
                   ClockSettles(clock_state, now, config.animation_speed), FALSE)
    /\ count' = IF clock_state.animation_start # None
                   /\ clock_state'.animation_start = None
                THEN [count EXCEPT !.settled = @ + 1] ELSE count
    /\ geometry' = [ geometry EXCEPT
                       !.clock_drawn = TRUE,
                       !.clock = ClockLayout(config, rect, TRUE),
                       !.clock_rect = rect,
                       !.clock_first = Remember(@, rect, ClockLayout(config, rect, TRUE)),
                       !.clock_again = Returns(geometry, rect) ]
    /\ camera' = CameraAfter(SetupPreviewOps(config), camera)
    /\ tick' = tick \o DrawSteps("clock", ClockSettles(clock_state, now, config.animation_speed))
    /\ pc' = "setup_ui"
    /\ UNCHANGED <<shell, input, now, utc0, config, departure_state, rect>>

\* the configurations one frame of the settings UI can leave: the
\* pixelated checkbox toggled, a monitor's combo box set to another view
UiEdits(cfg, ms) ==
    { [cfg EXCEPT !.pixelated = ~@] }
      \cup UNION { { [cfg EXCEPT !.monitor_views[ms[i].name] = v] :
                       v \in {"Clock", "DepartureBoard", "Off"} \ {ResolveView(cfg, ms[i].name)} } :
                     i \in 1..Len(ms) }

\* the rest of run_setup's frame: the egui pass, which shows every monitor
\* with its view, and its draw, then either None for Escape, the next mode
\* for "Try it out", or next_frame(). A changed setting is saved at once;
\* save_config drops the result of fs::write, so the file is the new one or,
\* where the configuration directory cannot be written (disk_ok false), the
\* old one
SetupUi ==
    /\ pc = "setup_ui"
    /\ frame' = [ frame EXCEPT !.assigned =
                    [ i \in 1..Len(monitors) |->
                        [ name |-> monitors[i].name,
                          view |-> ResolveView(config, monitors[i].name) ] ] ]
    /\ \/ /\ pc' = "setup_update"
          /\ tick' = Append(tick, "next_frame")
          /\ ev' = Event("setup_ui", FALSE, FALSE, FALSE, FALSE)
          /\ UNCHANGED <<app, file, config>>
       \/ /\ config' \in UiEdits(config, monitors)
          /\ file' = IF app.disk_ok THEN SaveConfig(config') ELSE file
          /\ ev' = Event(IF app.disk_ok THEN "save_config" ELSE "save_failed",
                         FALSE, FALSE, FALSE, FALSE)
          /\ pc' = "setup_update"
          /\ tick' = Append(tick, "next_frame")
          /\ UNCHANGED app
       \/ /\ app' = [app EXCEPT !.mode = ModeClock(TRUE)]
          /\ pc' = "run_clock"
          /\ ev' = Event("try_it_out", FALSE, FALSE, FALSE, FALSE)
          /\ UNCHANGED <<file, config, tick>>
       \/ /\ pc' = "exited"
          /\ ev' = Event("escape", FALSE, FALSE, FALSE, FALSE)
          /\ UNCHANGED <<app, file, config, tick>>
    /\ UNCHANGED <<monitors, input, camera, now, utc0, clock_state, departure_state,
                   count, rect, geometry>>

\* run_clock up to its loop: load_config, get_monitors, ClockState::new,
\* DepartureBoardState::new, mouse_init_pos, start_time
EnterClock ==
    /\ pc = "run_clock"
    /\ config' = LoadConfig(file)
    /\ clock_state' = ClockNew(now)
    /\ departure_state' = BoardNew(now)
    /\ input' = [ NoInput(now) EXCEPT !.mouse = input.mouse, !.mouse_init = input.mouse ]
    /\ rect' = DefaultRect
    /\ frame' = NoFrame
    /\ geometry' = NoGeometry
    /\ count' = [started |-> 1, settled |-> 0, pending |-> FALSE]
    /\ tick' = <<>>
    /\ ev' = Event("new", FALSE, FALSE, FALSE, FALSE)
    /\ pc' = "update_clock"
    /\ UNCHANGED <<shell, camera, now, utc0>>

\* the loop pcs of run_clock
InClockLoop == pc \in {"update_clock", "update_board", "draw_clock", "draw_board"}

\* a key goes down while run_clock runs
KeyPress ==
    /\ InClockLoop
    /\ ~input.key
    /\ input' = [input EXCEPT !.key = TRUE]
    /\ UNCHANGED <<shell, camera, tick, now, utc0, config, clock_state, departure_state,
                   pc, frame, ev, count, rect, geometry>>

\* the mouse moves while run_clock runs
MouseMove ==
    /\ InClockLoop
    /\ \E m \in MousePositions \ {input.mouse} : input' = [input EXCEPT !.mouse = m]
    /\ UNCHANGED <<shell, camera, tick, now, utc0, config, clock_state, departure_state,
                   pc, frame, ev, count, rect, geometry>>

\* an exit after which main ends the process, preview or not
ExitEndsProcess ==
    /\ pc = "update_clock"
    /\ ExitCondition(input, now)
    /\ input' = [input EXCEPT !.key = FALSE, !.cursor = TRUE]
    /\ pc' = "exited"
    /\ ev' = Event("exit", FALSE, FALSE, FALSE, FALSE)
    /\ UNCHANGED <<shell, camera, tick, now, utc0, config, clock_state,
                   departure_state, frame, count, rect, geometry>>

\* an exit that does not wait for the top of the loop
ExitMidFrame ==
    /\ InClockLoop
    /\ ExitCondition(input, now)
    /\ input' = [input EXCEPT !.key = FALSE, !.cursor = TRUE]
    /\ app' = [app EXCEPT !.mode = IF @.preview THEN ModeSetup ELSE @]
    /\ pc' = IF app.mode.preview THEN "run_setup" ELSE "exited"
    /\ ev' = Event("exit", FALSE, FALSE, FALSE, FALSE)
    /\ UNCHANGED <<file, monitors, camera, tick, now, utc0, config, clock_state,
                   departure_state, frame, count, rect, geometry>>

\* the two returns at the top of run_clock's loop: show_mouse(true), return,
\* and main's match: Setup after a preview, the end of the process otherwise
Exit ==
    /\ pc = "update_clock"
    /\ ExitCondition(input, now)
    /\ input' = [input EXCEPT !.key = FALSE, !.cursor = TRUE]
    /\ app' = [app EXCEPT !.mode = IF @.preview THEN ModeSetup ELSE @]
    /\ pc' = IF app.mode.preview THEN "run_setup" ELSE "exited"
    /\ ev' = Event("exit", FALSE, FALSE, FALSE, FALSE)
    /\ UNCHANGED <<file, monitors, camera, tick, now, utc0, config, clock_state,
                   departure_state, frame, count, rect, geometry>>

\* test_config_serialization's configuration, its colours brought to the
\* thousandths grid
TestConfig ==
    [ selected_monitor |-> "TestMonitor",
      use_12h_format   |-> TRUE,
      show_seconds     |-> FALSE,
      pixelated        |-> TRUE,
      scale            |-> 18,
      spacing          |-> 5,
      corner_radius    |-> 10,
      bg_color         |-> <<100, 200, 300>>,
      card_color       |-> <<400, 500, 600>>,
      text_color       |-> <<700, 800, 900>>,
      animation_speed  |-> 500,
      monitor_views    |-> NoViews ]

\* what config.json can hold when the program starts: nothing; a file with
\* a value of the wrong type; or what an earlier run saved (the default
\* configuration, the test's, one naming a monitor since unplugged, one
\* naming the second monitor, one whose table holds only the unplugged
\* monitor, one with a view chosen for the present monitor), whole or
\* without the keys an older version or a hand edit left out
StoredFiles ==
    LET StoredConfigs ==
            { DefaultConfig, TestConfig,
              [DefaultConfig EXCEPT !.selected_monitor = "Gone", !.animation_speed = 2000],
              [DefaultConfig EXCEPT !.selected_monitor = "HDMI-1"],
              [DefaultConfig EXCEPT !.monitor_views["Gone"] = "Clock"],
              [DefaultConfig EXCEPT !.monitor_views["Default"] = "DepartureBoard"] }
        Omissions ==
            { {}, {"selected_monitor"},
              {"use_12h_format", "show_seconds", "scale", "spacing", "corner_radius"},
              Keys \ {"selected_monitor"}, Keys }
        Omit(doc, S) == [k \in Keys |-> IF k \in S THEN <<>> ELSE doc[k]]
    IN  {NoFile}
          \cup { [ exists |-> TRUE, doc |-> Omit(Serialize(c), S),
                   views |-> c.monitor_views ] :
                   c \in StoredConfigs, S \in Omissions }
          \cup { [ exists |-> TRUE,
                   doc |-> [Serialize(TestConfig) EXCEPT !.scale = <<"true">>],
                   views |-> NoViews ] }

\* before main: nothing loaded, nothing constructed. Either the program and
\* its argument vary, or what the machine holds does
InitApp ==
    /\ now = 200
    /\ utc0 = 12 * 3600 + 34 * 60 + 58
    /\ \/ /\ app \in { [ variant |-> v, argc |-> c, arg |-> a, font_file |-> f,
                         disk_ok |-> TRUE,
                         mode |-> ModeNone, font |-> "None" ] :
                       v \in {"src", "rust_flip-rs", "rust_flip_clock"}, c \in {1, 2},
                       a \in Args \cup {<<>>}, f \in BOOLEAN }
          /\ app.argc = 1 <=> app.arg = <<>>
          /\ file = NoFile
          /\ monitors = DefaultMonitors
       \/ /\ app \in { [ variant |-> "src", argc |-> 2, arg |-> <<"/", "c">>,
                         font_file |-> TRUE, disk_ok |-> d, mode |-> ModeNone,
                         font |-> "None" ] : d \in BOOLEAN }
          /\ file \in StoredFiles
          /\ monitors \in MonitorLists
    /\ config = DefaultConfig
    /\ clock_state = ClockDefault
    /\ departure_state = BoardNew(0)
    /\ pc = "main"
    /\ frame = NoFrame
    /\ ev = Event("start", FALSE, FALSE, FALSE, FALSE)
    /\ count = [started |-> 0, settled |-> 0, pending |-> FALSE]
    /\ rect = DefaultRect
    /\ geometry = NoGeometry
    /\ input = NoInput(now)
    /\ camera = "default"
    /\ tick = <<>>

NextApp ==
    \/ Launch \/ EnterSetup \/ SetupUpdate \/ SetupPreview \/ SetupUi
    \/ EnterClock \/ Tick \/ KeyPress \/ Exit

\* the whole program from main on, at one instant: the mouse rests
SpecApp == InitApp /\ [][NextApp]_vars

\* the frame loop with keys pressed and the mouse moved, as the show and as
\* the preview the settings start, entered at get_time() = 0.6 s
InitInput ==
    /\ now = 600
    /\ utc0 = SecondsPerWeek - 2
    /\ config = [DefaultConfig EXCEPT !.animation_speed = 100]
    /\ app \in { [ variant |-> "src", argc |-> 2, arg |-> <<"/", "s">>,
                    font_file |-> TRUE, disk_ok |-> TRUE, mode |-> ModeClock(FALSE),
                    font |-> "Some" ],
                  [ variant |-> "src", argc |-> 2, arg |-> <<"/", "p">>,
                    font_file |-> TRUE, disk_ok |-> TRUE, mode |-> ModeClock(TRUE),
                    font |-> "Some" ] }
    /\ file = SaveConfig(config)
    /\ monitors = DefaultMonitors
    /\ rect = DefaultRect
    /\ Constructed

NextInput == NextFrame \/ Tick \/ KeyPress \/ MouseMove \/ Exit

SpecInput == InitInput /\ [][NextInput]_vars

\* ---------------------------------------------------------------- claims
\* the row fields as a triple
RowCurrent(row) == <<row.time_str, row.ampm, row.day>>

RowPrevious(row) == <<row.prev_time_str, row.prev_ampm, row.prev_day>>

FieldsOf(f) == <<f.time_str, f.ampm, f.day>>

\* C1: when ClockState::update sees digits that differ from the current ones
\* while a transition is in flight, that same call forces the transition to
\* completion (previous <- current), sets the new target (current <- new
\* value) and sets a fresh animation_start.
C1_RestartInFlight ==
    [][ ( /\ pc = "update_clock" /\ pc' = "update_board"
          /\ clock_state.animation_start # None
          /\ Differs(clock_state, now, config.use_12h_format) )
        => ( /\ clock_state'.previous_digits = clock_state.current_digits
             /\ clock_state'.previous_seconds = clock_state.current_seconds
             /\ clock_state'.current_digits = NewDigits(now, config.use_12h_format)
             /\ clock_state'.current_seconds = NewSeconds(now)
             /\ clock_state'.animation_start = now ) ]_vars

\* C2: when DepartureBoardState::update, past its rate limit, finds a row's
\* recomputed fields different from the current ones while the row is
\* animating, the call snaps the transition to completion (prev_* <- current)
\* and starts the new one: current fields <- recomputed, anim_start afresh.
C2_RowRestartInFlight ==
    [][ ( /\ pc = "update_board" /\ pc' = "draw_clock"
          /\ now - departure_state.last_update >= RateLimitMs )
        => \A i \in Rows :
             ( /\ departure_state.rows[i].anim_start # None
               /\ RowCurrent(departure_state.rows[i]) # FieldsOf(CityFields(CITIES[i], now)) )
             => ( /\ RowPrevious(departure_state'.rows[i])
                       = RowCurrent(departure_state.rows[i])
                  /\ RowCurrent(departure_state'.rows[i])
                       = FieldsOf(CityFields(CITIES[i], now))
                  /\ departure_state'.rows[i].anim_start = now ) ]_vars

\* a row that is animating while its city's time has moved on, seen early
\* enough for the animation to end within the modelled time
RowChangePending(i) ==
    /\ departure_state.rows[i].anim_start # None
    /\ RowCurrent(departure_state.rows[i]) # FieldsOf(CityFields(CITIES[i], now))
    /\ now + config.animation_speed + Quantum <= MaxTime

RowUpToDate(i) ==
    RowCurrent(departure_state.rows[i]) = FieldsOf(CityFields(CITIES[i], now))

\* C3: under continued ticks, a change of a row's time string, AM/PM or
\* weekday that arrives while the row is animating is eventually reflected in
\* the row's current fields; no row stays on an older value forever.
C3_RowChangeReflected ==
    \A i \in Rows : [](RowChangePending(i) => <>RowUpToDate(i))

\* the clock is animating while the wall clock has moved on, seen early
\* enough for the animation to end within the modelled time
ClockChangePending ==
    /\ clock_state.animation_start # None
    /\ Differs(clock_state, now, config.use_12h_format)
    /\ now + config.animation_speed + Quantum <= MaxTime

ClockUpToDate == ~Differs(clock_state, now, config.use_12h_format)

ClockFrameFresh == pc = "draw_board"

HourCells == {1, 2}

MinuteCells == {3, 4}

\* C5: digit independence.  In every frame a cell whose current value equals
\* its previous value is drawn with progress 1.0 even while sibling cells
\* animate: when a rollover such as 12:34:59 -> 12:35:00 changes minute and
\* second digits only, the changed cells are drawn with the animation's
\* progress and both hour cells with 1.0 in every frame of the transition,
\* and the update that picks the rollover up starts the animation.
C5_DigitIndependence ==
    /\ ClockFrameFresh =>
          /\ \A i \in 1..4 :
                IF clock_state.current_digits[i] = clock_state.previous_digits[i]
                THEN frame.cells[i] = One
                ELSE frame.cells[i] = frame.progress /\ PLt(frame.progress, One)
          /\ config.show_seconds =>
                \A i \in 1..2 :
                  IF clock_state.current_seconds[i] = clock_state.previous_seconds[i]
                  THEN frame.cells[4 + i] = One
                  ELSE frame.cells[4 + i] = frame.progress /\ PLt(frame.progress, One)
          /\ ( /\ \A i \in HourCells :
                     clock_state.current_digits[i] = clock_state.previous_digits[i]
               /\ \E i \in MinuteCells :
                     clock_state.current_digits[i] # clock_state.previous_digits[i] )
             => /\ \A i \in HourCells : frame.cells[i] = One
                /\ \E i \in MinuteCells : PLt(frame.cells[i], One)
    /\ (ev.op = "update_clock" /\ ev.differs /\ ~ev.inflight)
          => /\ clock_state.animation_start = now
             /\ ~Differs(clock_state, now, config.use_12h_format)

\* a frame in the middle of the 12:34 -> 12:35 transition
C5_Witness ==
    /\ ClockFrameFresh /\ config.show_seconds
    /\ clock_state.current_digits = <<"1", "2", "3", "5">>
    /\ clock_state.previous_digits = <<"1", "2", "3", "4">>
    /\ clock_state.current_seconds[1] = "0"
    /\ clock_state.previous_seconds[1] = "5"
    /\ PLt(Zero, frame.progress) /\ PLt(frame.progress, One)
    /\ frame.cells[1] = One /\ frame.cells[2] = One /\ frame.cells[3] = One
    /\ frame.cells[4] = frame.progress /\ frame.cells[5] = frame.progress

\* C6: with seconds enabled, if the state holds 23:59:59 and the next tick's
\* update samples 00:00:00, then on that tick all six cells take their new
\* value together and the animation is started for all six, whatever the
\* configured animation duration.
C6_MidnightRollover ==
    [][ ( /\ pc = "update_clock" /\ pc' = "update_board"
          /\ config.show_seconds
          /\ clock_state.current_digits = <<"2", "3", "5", "9">>
          /\ clock_state.current_seconds = <<"5", "9">>
          /\ NewDigits(now, config.use_12h_format) = <<"0", "0", "0", "0">>
          /\ NewSeconds(now) = <<"0", "0">> )
        => ( /\ clock_state'.current_digits = <<"0", "0", "0", "0">>
             /\ clock_state'.current_seconds = <<"0", "0">>
             /\ clock_state'.previous_digits = <<"2", "3", "5", "9">>
             /\ clock_state'.previous_seconds = <<"5", "9">>
             /\ clock_state'.animation_start # None ) ]_vars

\* the progress of the six cards if draw_clock_face drew state s at time t
RenderedCells(s, t) ==
    ClockCells(ClockDraw(s, t, config.animation_speed),
               ClockProgress(s, t, config.animation_speed), TRUE)

AllCellsComplete(s, t) == \A i \in 1..6 : RenderedCells(s, t)[i] = One

\* an update whose computed digits and seconds equal the current ones
UpdateWithSameValue ==
    /\ pc = "update_clock" /\ pc' = "update_board"
    /\ ~Differs(clock_state, now, config.use_12h_format)

\* C7 as stated: an update whose target equals the current value starts no
\* animation, leaves every field unchanged, and every cell's rendered
\* progress is 1.0 before and after the call.
C7_SameValueAllComplete ==
    [][ UpdateWithSameValue
        => ( /\ clock_state' = clock_state
             /\ AllCellsComplete(clock_state, now)
             /\ AllCellsComplete(clock_state', now) ) ]_vars

\* C7 amended: an update whose target equals the current value starts no
\* animation and leaves every field unchanged, so every cell renders after
\* the call as before it; every cell's rendered progress is 1.0 before and
\* after the call when no transition is in flight.
C7_SameValueNoOp ==
    [][ UpdateWithSameValue
        => ( /\ clock_state' = clock_state
             /\ RenderedCells(clock_state', now) = RenderedCells(clock_state, now)
             /\ clock_state.animation_start = None
                  => ( /\ AllCellsComplete(clock_state, now)
                       /\ AllCellsComplete(clock_state', now) ) ) ]_vars

\* an idle clock was just updated with the value it already shows
C7_Witness ==
    /\ ev.op = "update_clock" /\ ~ev.differs /\ ~ev.inflight
    /\ count.settled >= 1
    /\ clock_state.animation_start = None
    /\ AllCellsComplete(clock_state, now)

\* a progress value is a fraction within [0, 1]
InUnitRange(p) == p.d > 0 /\ PLe(Zero, p) /\ PLe(p, One)

\* C8: for a fixed animation_start and a fixed duration, the progress
\* computed at draw time is always within [0, 1] and never decreases from
\* one draw to the next, for the clock face and for every departure-board
\* row.
C8_ProgressMonotone ==
    /\ [] ( /\ frame.drawn => InUnitRange(frame.progress)
            /\ frame.board_drawn => \A i \in Rows : InUnitRange(frame.rows[i]) )
    /\ [][ /\ ( /\ frame.drawn /\ frame.start # None
                /\ frame'.start = frame.start )
              => PLe(frame.progress, frame'.progress)
           /\ frame.board_drawn
              => \A i \in Rows :
                   ( /\ frame.row_start[i] # None
                     /\ frame'.row_start[i] = frame.row_start[i] )
                   => PLe(frame.rows[i], frame'.rows[i]) ]_vars

\* a frame drawn part-way through a clock transition and a row transition
C8_Witness ==
    /\ ev.op = "draw_board"
    /\ frame.drawn /\ frame.start # None
    /\ frame.start = clock_state.animation_start
    /\ PLt(Zero, frame.progress) /\ PLt(frame.progress, One)
    /\ \E i \in Rows : PLt(Zero, frame.rows[i]) /\ PLt(frame.rows[i], One)

\* C9: settling is idempotent.  Once a transition's progress has reached 1.0,
\* the settle step leaves previous = current and animation_start = None, and
\* running draw_clock_face again with no update in between, at the same or
\* any later time, leaves exactly that state.
C9_SettleIdempotent ==
    (ev.op = "draw_clock" /\ ev.settled)
    => /\ clock_state.previous_digits = clock_state.current_digits
       /\ clock_state.previous_seconds = clock_state.current_seconds
       /\ clock_state.animation_start = None
       /\ \A t \in {now, now + Quantum, MaxTime} :
             ClockDraw(clock_state, t, config.animation_speed) = clock_state

\* the settle of a transition that changed the digits
C9_Witness ==
    /\ ev.op = "draw_clock" /\ ev.settled
    /\ count.settled >= 2
    /\ clock_state.animation_start = None

\* C10: the settle step runs exactly once per completed transition.  It is
\* not run again on later frames (the count of settles never passes the count
\* of started transitions, and a draw of an idle clock changes nothing), and
\* it only ever clears a transition whose own duration has elapsed, never one
\* that a later update has started.
C10_SettleOnce ==
    /\ [] ( /\ count.settled <= count.started
            /\ count.started <= count.settled + 1
            /\ (clock_state.animation_start = None) <=> (count.settled = count.started) )
    /\ [][ (pc = "draw_clock" /\ pc' = "draw_board")
           => /\ clock_state.animation_start = None
                 => (clock_state' = clock_state /\ count' = count)
              /\ clock_state'.animation_start # clock_state.animation_start
                 => /\ clock_state'.animation_start = None
                    /\ now - clock_state.animation_start >= config.animation_speed
                    /\ count'.settled = count.settled + 1 ]_vars

\* a frame drawn after the second transition has been settled
C10_Witness ==
    /\ ev.op = "draw_clock" /\ ~ev.inflight /\ ~ev.settled
    /\ count.settled >= 2 /\ count.started = count.settled
    /\ PEq(frame.progress, Zero)

\* C11: once a departure-board row's progress has reached 1.0, the draw that
\* computed it transitions the row back to Idle (prev_* <- current,
\* anim_start <- None), so under continued ticks every started row animation
\* eventually returns to Idle.
C11_RowSettles ==
    /\ [][ (pc = "draw_board" /\ pc' = "update_clock")
           => \A i \in Rows :
                ( /\ departure_state.rows[i].anim_start # None
                  /\ PEq(RowProgress(departure_state.rows[i], now,
                                     config.animation_speed), One) )
                => ( /\ departure_state'.rows[i].anim_start = None
                     /\ RowPrevious(departure_state'.rows[i])
                          = RowCurrent(departure_state'.rows[i]) ) ]_vars
    /\ \A i \in Rows :
         []( ( /\ departure_state.rows[i].anim_start # None
               /\ now + config.animation_speed + Quantum <= MaxTime )
             => <>(departure_state.rows[i].anim_start = None) )

\* C12: in every reachable state of the clock face, animation_start = None
\* implies previous_digits = current_digits and previous_seconds =
\* current_seconds.
C12_IdleMeansEqual ==
    clock_state.animation_start = None
    => /\ clock_state.previous_digits = clock_state.current_digits
       /\ clock_state.previous_seconds = clock_state.current_seconds

\* an update found the settled clock up to date and left it idle
C12_Witness ==
    /\ ev.op = "update_clock" /\ ~ev.differs
    /\ count.started >= 2 /\ count.settled = count.started
    /\ clock_state.animation_start = None
    /\ clock_state.previous_seconds = clock_state.current_seconds

\* C13: DepartureBoardState::update is rate-limited.  A call made less than
\* 100 ms after last_update leaves rows and last_update unchanged; a call
\* that recomputes the rows comes at least 100 ms after the one before it
\* and records its own time in last_update.
C13_RateLimited ==
    /\ [][ (pc = "update_board" /\ pc' = "draw_clock")
           => /\ now - departure_state.last_update < RateLimitMs
                 => departure_state' = departure_state
              /\ departure_state' # departure_state
                 => /\ now - departure_state.last_update >= RateLimitMs
                    /\ departure_state'.last_update = now
              /\ now - departure_state.last_update >= RateLimitMs
                 => departure_state'.last_update = now ]_vars
    /\ [](departure_state.last_update <= now)

\* a call one frame after a recomputation of populated rows has just been
\* turned away
C13_Witness ==
    /\ pc = "draw_clock" /\ ev.op = "update_board"
    /\ \A i \in Rows : departure_state.rows[i].anim_start # None
    /\ departure_state.last_update >= RateLimitMs
    /\ departure_state.last_update < now
    /\ now - departure_state.last_update < RateLimitMs

\* value of a decimal digit character; a space pads the hour
PairVal(a, b) == 10 * DigitVal(a) + DigitVal(b)

\* the weekday strings a row can show, Monday first
WeekdayNames ==
    << <<"M", "O", "N">>, <<"T", "U", "E">>, <<"W", "E", "D">>, <<"T", "H", "U">>,
       <<"F", "R", "I">>, <<"S", "A", "T">>, <<"S", "U", "N">> >>

MinutesPerWeek == 7 * 24 * 60

\* the minute of the week a row's three fields read as
ShownMinute(row) ==
    LET hour_12 == PairVal(row.time_str[1], row.time_str[2])
        hour    == (hour_12 % 12) + (IF row.ampm = <<"P", "M">> THEN 12 ELSE 0)
        minute  == PairVal(row.time_str[4], row.time_str[5])
        weekday == CHOOSE d \in 0..6 : WeekdayNames[d + 1] = row.day
    IN  weekday * 24 * 60 + hour * 60 + minute

RowPopulated(i) == departure_state.rows[i].time_str # BlankRow.time_str

RowsAtOffset(h) ==
    {i \in Rows : CITIES[i].offset_hours = h /\ CITIES[i].offset_minutes = 0}

\* C14: once the rows are populated, a row of a +1:00 city (STOCKHOLM, PARIS)
\* reads exactly one hour ahead of a row of a 0:00 city (UTC, LONDON), hour,
\* AM/PM and weekday taken together.
C14_OneHourAhead ==
    \A a \in RowsAtOffset(1) : \A b \in RowsAtOffset(0) :
        (RowPopulated(a) /\ RowPopulated(b))
        => ShownMinute(departure_state.rows[a])
             = (ShownMinute(departure_state.rows[b]) + 60) % MinutesPerWeek

\* an update of the loop has populated the rows: UTC shows Sunday 11:59 PM
\* while STOCKHOLM shows Monday 12:59 AM
C14_Witness ==
    /\ ev.op = "update_board" /\ departure_state.last_update = now
    /\ RowsAtOffset(1) = {6, 7} /\ RowsAtOffset(0) = {4, 5}
    /\ RowCurrent(departure_state.rows[4])
         = << <<"1", "1", ":", "5", "9">>, <<"P", "M">>, <<"S", "U", "N">> >>
    /\ RowCurrent(departure_state.rows[6])
         = << <<"1", "2", ":", "5", "9">>, <<"A", "M">>, <<"M", "O", "N">> >>

\* C15: the weekday a populated row shows is its city's weekday as of the
\* last update that passed the rate limit: when the city's local time crosses
\* midnight the field changes on the first such update at or after the
\* crossing, not earlier and not later.
C15_WeekdayAtMidnight ==
    \A i \in Rows :
        RowPopulated(i)
        => departure_state.rows[i].day
             = CityFields(CITIES[i], departure_state.last_update).day

\* the numbers the clock state's digit pairs encode
HourShown == PairVal(clock_state.current_digits[1], clock_state.current_digits[2])

MinuteShown == PairVal(clock_state.current_digits[3], clock_state.current_digits[4])

SecondShown == PairVal(clock_state.current_seconds[1], clock_state.current_seconds[2])

\* C16: from construction onwards, with 12-hour mode enabled the hour digits
\* encode the wall-clock hour folded to 1..12, with it disabled they encode
\* 0..23; the minute and second pairs always encode 0..59.
C16_HourFolded ==
    /\ IF config.use_12h_format THEN HourShown \in 1..12 ELSE HourShown \in 0..23
    /\ MinuteShown \in 0..59
    /\ SecondShown \in 0..59

\* the clock geometry of the last frame and the rectangle it was made for
LeftEdge == geometry.clock.cards[1]

RightEdge == geometry.clock.cards[Len(geometry.clock.cards)] + geometry.clock.card_width

\* a thousandth of a pixel
LayoutTolerance == Px \div 1000

Abs(n) == IF n < 0 THEN -n ELSE n

\* C17: for any drawable rectangle and any configuration (scale 0.2..1.0,
\* spacing 0..0.1, seconds on or off), start_x >= rect.x, start_x +
\* total_width <= rect.x + rect.width, and the block of cards actually drawn
\* is horizontally centered: its left margin equals its right margin within
\* tolerance.
C17_LayoutFits ==
    geometry.clock_drawn
    => LET r == geometry.clock_rect
           g == geometry.clock
       IN  /\ g.start_x >= r.x * Px
           /\ g.start_x + g.total_width <= (r.x + r.w) * Px
           /\ Abs((LeftEdge - r.x * Px) - ((r.x + r.w) * Px - RightEdge))
                <= LayoutTolerance

\* C18: the total width used for centering equals the extent of the cards as
\* placed, from the first card's left edge to the last card's right edge.
C18_TotalWidthIsExtent ==
    geometry.clock_drawn => RightEdge - LeftEdge = geometry.clock.total_width

C20_NoOverlap ==
    /\ geometry.clock_drawn
       => \A k, l \in DOMAIN geometry.clock.cards :
             k < l => geometry.clock.cards[k] + geometry.clock.card_width
                         <= geometry.clock.cards[l]
    /\ geometry.board_drawn
       => LET b == geometry.board
          IN  /\ \A i \in Rows :
                   b.name[i][NameChars[i]] + b.card_width <= b.time[1]
              /\ b.time[5] + b.card_width <= b.ampm[1]
              /\ b.ampm[2] + b.card_width <= b.day[1]

\* C21: whenever exactly one surface is present and config.json holds no
\* view for it, the view the settings resolve for it is Clock; when several
\* are present, every unassigned surface but the primary one resolves to Off.
\* This is so when the stored table is empty and when it has entries for
\* other monitors only.
C21_UnassignedDefaults ==
    Len(frame.assigned) = Len(monitors) =>
        \A i \in 1..Len(monitors) :
            file.views[monitors[i].name] = "Absent" =>
                IF Len(monitors) = 1 THEN frame.assigned[i].view = "Clock"
                ELSE ~monitors[i].is_primary => frame.assigned[i].view = "Off"

C23_AbsentFieldsDefault ==
    /\ (ev.op = "run_setup" /\ file.exists /\ WellTyped(file.doc)) =>
          \A k \in Keys :
              IF Present(file.doc, k) THEN Serialize(config)[k] = file.doc[k]
              ELSE config[k] = DefaultConfig[k]
    /\ ~DefaultConfig.use_12h_format /\ DefaultConfig.show_seconds
    /\ DefaultConfig.scale = 17 /\ DefaultConfig.spacing = 4
    /\ DefaultConfig.corner_radius = 8 /\ DefaultConfig.animation_speed = 600
    /\ DefaultConfig.selected_monitor = "" /\ ~DefaultConfig.pixelated

C25_FontOptional ==
    ~app.font_file => (pc # "panicked" /\ app.font # "panic")

\* C26: the start-up mode follows the first argument, matched as a
\* case-insensitive prefix: /s or no argument gives the fullscreen show, /c
\* the settings view, /p the preview.
C26_ModeFromArgument ==
    LET ArgIs(c) == app.argc > 1 /\ StartsWith(ToLowercase(app.arg), <<"/", c>>)
    IN  ev.op = "main" =>
            /\ (app.argc <= 1 \/ ArgIs("s")) =>
                  (app.mode = ModeShow \/ app.mode = ModeClock(FALSE))
            /\ ArgIs("c") => app.mode = ModeSetup
            /\ ArgIs("p") => app.mode = ModeClock(TRUE)

\* C27: the clock loop is left only from the top of a tick and only on an
\* exit condition (a key pressed, or the mouse moved beyond the threshold
\* after the grace period); the step that leaves it updates no state and draws
\* nothing; a pending key is consumed nowhere else; and a tick past its top
\* goes on to its next step whatever input has arrived.
C27_CooperativeExit ==
    [][ /\ (InClockLoop /\ pc' \notin {"update_clock", "update_board", "draw_clock",
                                       "draw_board"})
           => /\ pc = "update_clock" /\ ExitCondition(input, now)
              /\ UNCHANGED <<clock_state, departure_state, frame, geometry, tick>>
        /\ (input.key /\ ~input'.key) => pc = "update_clock"
        /\ (pc = "update_clock" /\ ExitCondition(input, now))
           => UNCHANGED <<clock_state, departure_state, frame>>
        /\ (pc = "update_board" /\ pc' # pc) => pc' = "draw_clock"
        /\ (pc = "draw_clock" /\ pc' # pc) => pc' = "draw_board"
        /\ (pc = "draw_board" /\ pc' # pc) => pc' = "update_clock" ]_vars

\* the loop was left for a mouse moved beyond the threshold after frames
\* had been drawn
C27_Witness ==
    /\ ev.op = "exit" /\ pc = "exited" /\ input.cursor
    /\ frame.drawn /\ MouseMoved(input) /\ ~InGrace(input, now)

C29_TargetsScoped ==
    LET \* the calls that bind a render target
        Binds == { "set_camera:render_target", "set_camera:pixel_target",
                   "set_camera:preview_target" }
        \* every bind is followed by an unbind with no other bind between
        Scoped(ops) ==
            \A i \in 1..Len(ops) :
                ops[i] \in Binds =>
                    \E j \in (i + 1)..Len(ops) :
                        /\ ops[j] = "set_default_camera"
                        /\ \A k \in (i + 1)..(j - 1) : ops[k] \notin Binds
    IN  /\ camera = "default"
        /\ Scoped(SetupPreviewOps(config))
        /\ Scoped(ClockDrawOps(config))

\* a pixelated preview frame has been rendered and the UI pass comes next
C29_Witness ==
    pc = "setup_ui" /\ config.pixelated /\ frame.drawn /\ ev.op = "draw_clock"

C31_TimeAtRightMargin ==
    geometry.board_drawn =>
        LET b == geometry.board
        IN  /\ b.time[5] + b.card_width = b.right_edge
            /\ b.ampm[2] + b.card_width < b.time[1]
            /\ b.day[3] + b.card_width < b.ampm[1]
            /\ \A i \in Rows :
                  b.name[i][1] = geometry.board_rect.x * Px + b.margin

\* C31: in every board row the weekday is the field next to the right
\* margin (its last card ends on it), AM/PM lies left of the weekday and
\* the time string left of AM/PM, each a gap of one and a half card widths
\* away, so that the row reads time, AM/PM, weekday from left to right; the
\* city name starts at the left margin.
C31_WeekdayAtRightMargin ==
    geometry.board_drawn =>
        LET b == geometry.board
            gap == (b.card_width * 3) \div 2
        IN  /\ b.day[3] + b.card_width = b.right_edge
            /\ b.right_edge = (geometry.board_rect.x + geometry.board_rect.w) * Px
                                  - b.margin
            /\ b.ampm[2] + b.card_width + gap = b.day[1]
            /\ b.time[5] + b.card_width + gap = b.ampm[1]
            /\ gap > 0
            /\ \A i \in Rows :
                  b.name[i][1] = geometry.board_rect.x * Px + b.margin

\* a board drawn into a rectangle other than the default one
C31_Witness ==
    /\ geometry.board_drawn /\ ev.op = "draw_board"
    /\ geometry.board_rect # DefaultRect
    /\ geometry.board.card_width > 0 /\ geometry.board.margin > 0

\* C32: in every state each board row's time string, current and previous,
\* has 5 characters with ':' as its third, its AM/PM field 2 and its weekday
\* field 3, current and previous; and in every board frame drawn the colon
\* position of every row is drawn as static text, not as a flip card.
C32_FieldShapes ==
    /\ \A i \in Rows :
          LET row == departure_state.rows[i]
          IN  /\ Len(row.time_str) = 5 /\ row.time_str[3] = ":"
              /\ Len(row.prev_time_str) = 5 /\ row.prev_time_str[3] = ":"
              /\ Len(row.ampm) = 2 /\ Len(row.prev_ampm) = 2
              /\ Len(row.day) = 3 /\ Len(row.prev_day) = 3
    /\ frame.board_drawn =>
          \A i \in Rows :
              /\ Len(frame.time_kinds[i]) = 5
              /\ frame.time_kinds[i][3] = "text"

\* a board frame drawn while a row's time string is flipping (the only flip
\* a row ever makes is its first one, from the blank placeholders)
C32_Witness ==
    /\ ev.op = "draw_board"
    /\ \E i \in Rows :
          /\ departure_state.rows[i].time_str # departure_state.rows[i].prev_time_str
          /\ PLt(frame.rows[i], One)
          /\ frame.time_kinds[i] = <<"card", "card", "text", "card", "card">>

\* C33: right after ClockState::new the clock is idle: animation_start is
\* None and the previous digits and seconds equal the current ones.
C33_FreshIsIdle ==
    ev.op = "new" =>
        /\ clock_state.animation_start = None
        /\ clock_state.previous_digits = clock_state.current_digits
        /\ clock_state.previous_seconds = clock_state.current_seconds

\* C34: right after DepartureBoardState::new, whatever get_time() was at
\* construction, every row holds its city's time, AM/PM and weekday of that
\* instant, none of the blank placeholders, and its previous fields equal
\* its current ones.
C34_BoardPopulated ==
    ev.op = "new" =>
        \A i \in Rows :
            LET row == departure_state.rows[i]
            IN  /\ RowCurrent(row) =
                      FieldsOf(CityFields(CITIES[i], departure_state.last_update))
                /\ row.time_str # BlankRow.time_str
                /\ row.ampm # BlankRow.ampm
                /\ row.day # BlankRow.day
                /\ RowPrevious(row) = RowCurrent(row)

\* C35: the mode machine of main. A clock run entered as Clock{preview:
\* true} goes to Setup when it ends, one entered as Clock{preview: false}
\* ends the process; Setup ends the process when run_setup returns None
\* (Escape) and otherwise enters the mode run_setup returns, which is
\* Clock{preview: true}; the mode changes, and a run is entered or the
\* process ended, at no other step.
C35_ModeMachine ==
    [][ LET Setup == {"setup_update", "setup_preview", "setup_ui"}
            Left == {"run_setup", "run_clock", "exited"}
        IN  /\ (InClockLoop /\ pc' \notin {"update_clock", "update_board", "draw_clock", "draw_board"})
                  => IF app.mode.preview
                     THEN app'.mode = ModeSetup /\ pc' = "run_setup"
                     ELSE app'.mode = app.mode /\ pc' = "exited"
            /\ (pc \in Setup /\ pc' \notin Setup)
                  => IF ev'.op = "escape"
                     THEN app'.mode = app.mode /\ pc' = "exited"
                     ELSE app'.mode = ModeClock(TRUE) /\ pc' = "run_clock"
            /\ (pc # "main" /\ (app'.mode # app.mode \/ (pc' # pc /\ pc' \in Left)))
                  => \/ InClockLoop /\ pc' \notin {"update_clock", "update_board", "draw_clock", "draw_board"}
                     \/ pc = "setup_ui" /\ pc' \notin Setup
            /\ pc' = "run_setup" => app'.mode = ModeSetup
            /\ pc' = "run_clock" => app'.mode.kind = "Clock" ]_vars

\* a preview started from the settings has ended and main is back in Setup
C35_Witness ==
    /\ ev.op = "exit" /\ pc = "run_setup" /\ app.mode = ModeSetup
    /\ frame.drawn

\* C36: the exit checks at the top of run_clock's loop. In the first 0.5 s
\* of the run a tick never leaves the loop for the mouse, however far it has
\* moved, and takes the mouse position as the new reference; after 0.5 s a
\* tick leaves the loop exactly when the mouse is more than 10 px from the
\* reference on either axis, and keeps the reference; a tick that finds a
\* key pressed leaves the loop, inside the grace period too; and whenever
\* the loop is left the cursor is shown again.
C36_ExitGrace ==
    [][ LET Loop == {"update_clock", "update_board", "draw_clock", "draw_board"}
            grace == now - input.start_time < 500
            dx == input.mouse[1] - input.mouse_init[1]
            dy == input.mouse[2] - input.mouse_init[2]
            moved == dx > 10 \/ dx < -10 \/ dy > 10 \/ dy < -10
            top == pc = "update_clock" /\ pc' # pc
            leaves == pc \in Loop /\ pc' \notin Loop
        IN  /\ (leaves /\ grace) => input.key
            /\ (top /\ grace /\ ~input.key)
                  => ~leaves /\ input'.mouse_init = input.mouse
            /\ (top /\ ~grace /\ ~input.key)
                  => (leaves <=> moved) /\ input'.mouse_init = input.mouse_init
            /\ (top /\ input.key) => leaves
            /\ leaves => (~input.cursor /\ input'.cursor) ]_vars

\* the loop was left for the mouse after the grace period, the reference
\* being a position the mouse had moved to during the grace period
C36_Witness ==
    /\ ev.op = "exit" /\ input.cursor
    /\ input.mouse_init # NoInput(0).mouse_init
    /\ MouseMoved(input)
    /\ now - input.start_time >= 500

\* C37: with show_seconds disabled, a ClockState::update that finds the
\* clock idle and only the seconds changed leaves it idle; and an update that
\* finds the hour or minute digits changed, with no transition in flight
\* but one that such a seconds-only change started, takes the new digits.
C37_HiddenSecondsIdle ==
    [][ (~config.show_seconds /\ pc = "update_clock" /\ pc' = "update_board")
          => LET new_digits == NewDigits(now, config.use_12h_format)
                 seconds_only == clock_state.previous_digits = clock_state.current_digits
             IN  /\ (clock_state.animation_start = None
                       /\ new_digits = clock_state.current_digits)
                    => clock_state'.animation_start = None
                 /\ (new_digits # clock_state.current_digits
                       /\ (clock_state.animation_start = None \/ seconds_only)
                       /\ count.settled > 0)
                    => clock_state'.current_digits = new_digits ]_vars

\* C38: in every clock frame each colon separator is centred in the gap
\* between two digit groups: at or right of the right edge of the card
\* before it and at or left of the left edge of the card after it, for the
\* HH|MM separator and, with seconds shown, for the MM|SS separator.
C38_SeparatorInGap ==
    geometry.clock_drawn =>
        LET g == geometry.clock
        IN  /\ g.cards[2] + g.card_width <= g.separators[1]
            /\ g.separators[1] <= g.cards[3]
            /\ Len(g.cards) = 6 =>
                  /\ Len(g.separators) = 2
                  /\ g.cards[4] + g.card_width <= g.separators[2]
                  /\ g.separators[2] <= g.cards[5]

\* C39: right after run_setup's start-up migration of an empty view table,
\* whenever at least one monitor is present at least one present monitor is
\* assigned Clock, also when the stored selected_monitor names a monitor
\* that is not present.
C39_MigrationKeepsAClock ==
    (ev.op = "run_setup" /\ LoadConfig(file).monitor_views = NoViews
       /\ Len(monitors) >= 1)
    => \E i \in 1..Len(monitors) : config.monitor_views[monitors[i].name] = "Clock"

\* C40: load_config does not fail, and when config.json is missing,
\* unreadable or does not deserialize (a value of the wrong type, or no
\* selected_monitor) the configuration it returns is AppConfig::default()
\* in every field, none taken from the file; and a step that saves, its
\* write done or failed, goes on to the next frame with the in-memory
\* configuration it was given, the file being that configuration's text or
\* the old file.
C40_LoadSaveTotal ==
    /\ [](/\ pc # "panicked" \/ app.variant # "src"
          /\ (ev.op \in {"run_setup", "new"}
                /\ ~(file.exists /\ Present(file.doc, "selected_monitor")
                       /\ WellTyped(file.doc)))
             => \A k \in Keys : config[k] = DefaultConfig[k])
    /\ [][ ev'.op \in {"save_config", "save_failed"} /\ pc = "setup_ui"
             => /\ config' \in UiEdits(config, monitors)
                /\ pc' = "setup_update"
                /\ \/ file' = file /\ ev'.op = "save_failed"
                   \/ /\ ev'.op = "save_config"
                      /\ file'.exists /\ file'.doc = Serialize(config')
                      /\ file'.views = config'.monitor_views ]_vars

\* a setting was changed and its write failed, in a run that had found no
\* config.json and started from the defaults
C40_Witness ==
    /\ ev.op = "save_failed" /\ ~file.exists
    /\ config # DefaultConfig
    /\ pc = "setup_update"

============================================================================
